---- MODULE Spec2Model ----
(***************************************************************************)
(* Model of the capture / resample / accumulate / dispatch pipeline of     *)
(* src/audio_capture.py (classes DeviceStream and AudioCapture).           *)
(*                                                                         *)
(* Samples are integers in units of one int16 step (1/32768): 0 is digital *)
(* silence.  A chunk is a record [samples, rate]; a span is a sequence of  *)
(* samples at the target rate.  Threads are indexed by the session (the    *)
(* successful start_recording() call) that spawned them, so that a thread  *)
(* abandoned by a timed-out join stays in the model.                       *)
(***************************************************************************)
EXTENDS Integers, Sequences, FiniteSets, TLC

\* ------------------------------------------------------------------ bounds
MaxSessions == 1      \* successful start_recording() calls, pipeline specification
MaxReads    == 6      \* frames read from the hardware, pipeline specification
CtlSessions == 2      \* successful start_recording() calls, control specification
SesSessions == 2      \* successful start_recording() calls, sessions specification
SesReads    == 6      \* frames read from the hardware, sessions specification
LiveSessions == 1     \* successful start_recording() calls, shutdown specification
LiveReads   == 6      \* frames read from the hardware, shutdown specification
CtlReads    == 1      \* frames read from the hardware, control specification
MaxIngest   == 2      \* chunks waiting in audio_queue (the queue is unbounded)
MaxChunkLen == 2      \* frames returned by one hardware read
MaxThreshold == 2     \* samples_threshold = target_sample_rate * accumulate_seconds
MaxOverlap  == 1      \* overlap_samples = int(target_sample_rate * overlap_seconds)
NumDevices  == 2      \* loopback endpoints of the platform
GapFrames   == 2      \* silent frames that open the signal "gap"
DevReads    == 3      \* frames read from the hardware, device specification
ProbeLen    == 103    \* frames of the longest chunk, resampling specification
MaxHostDevices == 2   \* devices in the platform's table, enumeration specification
EnumSessions == 1     \* successful start_recording() calls, enumeration specification
FaultSessions == 1    \* sessions of the specification with a failing resampler
FaultReads  == 4      \* frames read from the hardware in it
UiSessions  == 1      \* sessions started from the window
UiReads     == 5      \* frames read from the hardware under the window

\* ------------------------------------------------------- program constants
TargetRate       == 16000   \* AudioCapture.__init__ sample_rate
HandoffCapacity  == 5       \* queue.Queue(maxsize=5)
DecimateMinLen   == 100     \* len(audio_float) > 100
SilenceInvSq     == 931     \* rms < 1e-6  <=>  sum(q^2) * 931 < n  (q in int16 steps)

Devices  == 1..NumDevices
MostSessions ==
    LET m == IF MaxSessions > CtlSessions THEN MaxSessions ELSE CtlSessions
    IN  IF m > SesSessions THEN m ELSE SesSessions
Sessions == 1..MostSessions
NoCallback == "None"
\* The callback the window passes to start_recording() (ui.py, line 335).
OnAudioChunk == "on_audio_chunk"
\* chunk_offset outside the body of on_audio_chunk; inside it is <<offset>>.
NoOffset == <<>>
Callbacks == {NoCallback, "cbA"}

\* Native rate the platform reports for a device (defaultSampleRate).
NativeRate(d) == IF d = 1 THEN TargetRate ELSE 2 * TargetRate

\* What the platform plays, frame by frame (the k-th frame read from any
\* endpoint): a ramp of distinct non-zero samples, or GapFrames frames of
\* digital silence followed by the ramp.
Signals == {"ramp", "gap"}
Frame(sig, k) ==
    IF sig = "ramp" THEN k
    ELSE IF k <= GapFrames THEN 0 ELSE k

Min(a, b) == IF a < b THEN a ELSE b
Abs(a) == IF a < 0 THEN -a ELSE a

RECURSIVE Gcd(_, _)
Gcd(a, b) == IF b = 0 THEN a ELSE Gcd(b, a % b)

\* Python round(n / d): round half to even.
Round(n, d) ==
    LET q == n \div d
        r == n % d
    IN  IF 2 * r > d THEN q + 1
        ELSE IF 2 * r < d THEN q
        ELSE IF q % 2 = 0 THEN q ELSE q + 1

CeilDiv(a, b) == (a + b - 1) \div b

\* A decimation that keeps every sample.
DecimateKeepsAll(x, q) == x

\* scipy.signal.decimate(x, q, zero_phase=True): the filtered signal sliced [::q].
Decimate(x, q) == [i \in 1..CeilDiv(Len(x), q) |-> x[(i - 1) * q + 1]]

\* scipy.signal.resample_poly(x, up, down): ceil(len * up / down) output samples
\* (up and down reduced by their gcd), each taken at the corresponding time.
ResamplePoly(x, up, down) ==
    LET g == Gcd(up, down)
        u == up \div g
        d == down \div g
    IN  [i \in 1..CeilDiv(Len(x) * u, d) |-> x[((i - 1) * d) \div u + 1]]

\* Lines 333-335: the ratio is within 0.01 of an integer above 1 and the chunk
\* is long enough for the decimation filter.
DecimationPath(len, native_rate) ==
    LET int_ratio == Round(native_rate, TargetRate)
    IN  /\ int_ratio > 1
        /\ 100 * Abs(native_rate - int_ratio * TargetRate) < TargetRate
        /\ len > DecimateMinLen

\* Lines 331-345: the chunk brought to the target rate.
Resample(samples, native_rate) ==
    IF native_rate = TargetRate THEN samples
    ELSE LET int_ratio == Round(native_rate, TargetRate)
         IN  IF DecimationPath(Len(samples), native_rate)
             THEN Decimate(samples, int_ratio)
             ELSE LET num_samples == (Len(samples) * TargetRate) \div native_rate
                  IN  IF num_samples > 0
                      THEN ResamplePoly(samples, TargetRate, native_rate)
                      ELSE samples

\* np.sum(x[lo..hi] ** 2), by halves.
RECURSIVE SumSqRange(_, _, _)
SumSqRange(x, lo, hi) ==
    IF lo > hi THEN 0
    ELSE IF lo = hi THEN x[lo] * x[lo]
    ELSE LET mid == (lo + hi) \div 2
         IN  SumSqRange(x, lo, mid) + SumSqRange(x, mid + 1, hi)

SumSq(x) == SumSqRange(x, 1, Len(x))

\* Line 366-367: np.sqrt(np.mean(full_audio ** 2)) < 1e-6.
IsSilent(x) == SumSq(x) * SilenceInvSq < Len(x)

\* full_audio[-overlap_samples:] for overlap_samples > 0.
LastSamples(x, n) == IF Len(x) <= n THEN x ELSE SubSeq(x, Len(x) - n + 1, Len(x))
FirstSamples(x, n) == IF Len(x) <= n THEN x ELSE SubSeq(x, 1, n)

\* A threshold test that fires one sample early.
WindowFullEarly(count, threshold) == count >= threshold - 1

\* Line 362: the window is full.
WindowFull(count, threshold) == count >= threshold

\* Lines 370-375 and 389-394: the window after a flush of full_audio.
Reseed(full_audio, overlap) ==
    IF overlap > 0 /\ Len(full_audio) > overlap
    THEN [buf |-> LastSamples(full_audio, overlap), count |-> overlap]
    ELSE [buf |-> <<>>, count |-> 0]


\* ------------------------------------------------------------------- state
VARIABLES
    samples_threshold,     \* _process_audio: target_sample_rate * accumulate_seconds
    overlap_samples,       \* _process_audio: int(target_sample_rate * overlap_seconds)
    signal,                \* what the platform plays
    is_recording,
    device_streams,        \* sequence of the devices whose DeviceStream is held
    active_device_names,
    transcribe_callback,
    dropped_chunks,
    buffer_progress,       \* numerator of min(1.0, accumulated / threshold)
    audio_queue,           \* ingest channel: sequence of [samples, rate]
    transcription_queue,   \* hand-off channel: sequence of spans
    record_thread,         \* 0 (None) or the session of the referenced thread
    transcription_thread,
    session,               \* number of successful start_recording() calls
    ds_running,            \* [session][device]: DeviceStream._running
    ds_stream,             \* [session][device]: DeviceStream.stream is open
    ds_thread,             \* [session][device]: DeviceStream._read_thread
    rd_pc,                 \* [session][device]: position of the reader thread
    acc_pc,                \* [session]: position of the _process_audio thread
    accumulator,           \* [session]: its local accumulator, concatenated
    accumulated_samples,   \* [session]: its local accumulated_samples
    disp_pc,               \* [session]: position of the _transcription_worker thread
    disp_span,             \* [session]: the span it took (audio_data)
    taken,                 \* the dispatchers that hold a span not yet passed on, oldest first
    ctl_pc,                \* position of the control thread inside stop_recording()
    ctl_i,                 \* index into device_streams of the stop loop
    reads,                 \* number of frames read from the hardware so far
    last_span,             \* [session]: the overlap tail of the span its accumulator formed last
    ui_pc,                 \* position of the window's thread: "idle", "live", "stopping"
    is_live_transcribing,  \* TranscriberUI.is_live_transcribing
    live_segment_offset,   \* TranscriberUI.live_segment_offset, in samples at the target rate
    chunk_offset,          \* [session]: chunk_offset of the on_audio_chunk its dispatcher runs
    transcript,            \* the segments added to the transcript: span and offset
    pending,               \* the hand-off channel as _stop_live_transcription found it
    event                  \* what the last step did

vars == <<samples_threshold, overlap_samples, signal, is_recording, device_streams,
          active_device_names, transcribe_callback, dropped_chunks,
          buffer_progress, audio_queue, transcription_queue, record_thread,
          transcription_thread, session, ds_running, ds_stream, ds_thread,
          rd_pc, acc_pc, accumulator, accumulated_samples, disp_pc, disp_span, taken, ctl_pc,
          ctl_i, reads, last_span, ui_pc, is_live_transcribing, live_segment_offset,
          chunk_offset, transcript, pending, event>>

config_vars == <<samples_threshold, overlap_samples, signal>>
reader_vars == <<ds_running, ds_stream, ds_thread, rd_pc>>
acc_vars    == <<acc_pc, accumulator, accumulated_samples>>
disp_vars   == <<disp_pc, disp_span, taken>>
ui_vars     == <<ui_pc, is_live_transcribing, live_segment_offset, chunk_offset,
                 transcript, pending>>
ctl_vars    == <<ctl_pc, ctl_i>>
session_vars == <<is_recording, device_streams, active_device_names,
                  transcribe_callback, record_thread, transcription_thread, session>>

\* What the platform answers to the queries of get_loopback_devices(): whether
\* get_host_api_info_by_type succeeds; for each index of the device table what
\* get_device_info_by_index gives (a WASAPI input flagged isLoopbackDevice, one
\* with 'loopback' in its name, another WASAPI input, a device of no interest,
\* or an exception); the index get_default_wasapi_loopback gives (0: it
\* raises); what the default output device turns out to be.
DeviceKinds == {"flagged", "named", "input", "other", "error"}
Hosts ==
    [api : BOOLEAN,
     table : UNION {[1..n -> DeviceKinds] : n \in 0..MaxHostDevices},
     default : 0..(MaxHostDevices + 1),
     speakers : {"error", "plain", "loopback"}]
NoHost == [api |-> FALSE, table |-> <<>>, default |-> 0, speakers |-> "error"]

\* The description of a step; every action records its own.
Ev(op) == [op |-> op, kind |-> "", by |-> 0, mode |-> 0, devs |-> <<>>,
           ok |-> {}, cb |-> NoCallback, result |-> FALSE, span |-> <<>>,
           host |-> NoHost]

\* A step of a thread that no property needs to tell from the others.
Tau == Ev("tau")

\* AudioCapture.__init__ (lines 101-136), with the configuration drawn.
Init ==
    /\ samples_threshold \in 1..MaxThreshold
    /\ overlap_samples \in 0..MaxOverlap
    /\ signal \in Signals
    /\ is_recording = FALSE
    /\ device_streams = <<>>
    /\ active_device_names = <<>>
    /\ transcribe_callback = NoCallback
    /\ dropped_chunks = 0
    /\ buffer_progress = 0
    /\ audio_queue = <<>>
    /\ transcription_queue = <<>>
    /\ record_thread = 0
    /\ transcription_thread = 0
    /\ session = 0
    /\ ds_running = [s \in Sessions |-> [d \in Devices |-> FALSE]]
    /\ ds_stream = [s \in Sessions |-> [d \in Devices |-> FALSE]]
    /\ ds_thread = [s \in Sessions |-> [d \in Devices |-> "None"]]
    /\ rd_pc = [s \in Sessions |-> [d \in Devices |-> "none"]]
    /\ acc_pc = [s \in Sessions |-> "none"]
    /\ accumulator = [s \in Sessions |-> <<>>]
    /\ accumulated_samples = [s \in Sessions |-> 0]
    /\ disp_pc = [s \in Sessions |-> "none"]
    /\ disp_span = [s \in Sessions |-> <<>>]
    /\ taken = <<>>
    /\ ui_pc = "idle"
    /\ is_live_transcribing = FALSE
    /\ live_segment_offset = 0
    /\ chunk_offset = [s \in Sessions |-> NoOffset]
    /\ transcript = <<>>
    /\ pending = <<>>
    /\ ctl_pc = "idle"
    /\ ctl_i = 0
    /\ reads = 0
    /\ last_span = [s \in Sessions |-> <<>>]
    /\ event = Ev("init")

\* ------------------------------------------------------------ DeviceStream
\* Lines 70-77: the next n frames, as the chunk device d enqueues.
Chunk(n, d) ==
    [samples |-> [i \in 1..n |-> Frame(signal, reads + i)], rate |-> NativeRate(d)]

\* _read_loop, lines 68-77: the loop condition holds, the blocking read returns
\* and the chunk is enqueued, tagged with the stream's own native_rate.
\* queue.Queue() is unbounded: put never waits.
Read(s, d, max_reads) ==
    /\ rd_pc[s][d] = "loop"
    /\ ds_running[s][d] /\ ds_stream[s][d]
    /\ Len(audio_queue) < MaxIngest
    /\ \E n \in 1..MaxChunkLen :
          /\ reads + n <= max_reads
          /\ audio_queue' = Append(audio_queue, Chunk(n, d))
          /\ reads' = reads + n
    /\ event' = Tau
    /\ UNCHANGED <<config_vars, ui_vars, session_vars, dropped_chunks, buffer_progress,
                   transcription_queue, reader_vars, acc_vars, disp_vars, ctl_vars,
                   last_span>>

\* _read_loop, lines 70-77, for a read that was under way when stop() cleared
\* _running (pc "last"): it still returns and its chunk is enqueued; the loop
\* condition then fails.
ReadLast(s, d, max_reads) ==
    /\ rd_pc[s][d] = "last"
    /\ Len(audio_queue) < MaxIngest
    /\ \E n \in 1..MaxChunkLen :
          /\ reads + n <= max_reads
          /\ audio_queue' = Append(audio_queue, Chunk(n, d))
          /\ reads' = reads + n
    /\ rd_pc' = [rd_pc EXCEPT ![s][d] = "done"]
    /\ event' = [Ev("read_last") EXCEPT !.by = s]
    /\ UNCHANGED <<config_vars, ui_vars, session_vars, dropped_chunks, buffer_progress,
                   transcription_queue, ds_running, ds_stream, ds_thread, acc_vars, disp_vars,
                   ctl_vars, last_span>>

\* An I/O error that ends every reader of the session.
ErrorEndsAll(pcs, d) ==
    [e \in Devices |-> IF pcs[e] \in {"loop", "last"} THEN "done" ELSE pcs[e]]

\* Lines 78-80: the reader of device d leaves its loop; `pcs` are the positions
\* of the readers of its session.
ErrorBreaks(pcs, d) == [pcs EXCEPT ![d] = "done"]

\* _read_loop, lines 78-80: the read raises OSError (stream closed, device gone):
\* break.
ReadError(s, d) ==
    /\ rd_pc[s][d] \in {"loop", "last"}
    /\ rd_pc' = [rd_pc EXCEPT ![s] = ErrorBreaks(@, d)]
    /\ event' = Tau
    /\ UNCHANGED <<config_vars, ui_vars, session_vars, dropped_chunks, buffer_progress,
                   audio_queue, transcription_queue, ds_running, ds_stream,
                   ds_thread, acc_vars, disp_vars, ctl_vars, reads, last_span>>

\* _read_loop, line 68: the loop condition fails and the thread ends.
ReadExit(s, d) ==
    /\ rd_pc[s][d] = "last"
    /\ ~(ds_running[s][d] /\ ds_stream[s][d])
    /\ rd_pc' = [rd_pc EXCEPT ![s][d] = "done"]
    /\ event' = Tau
    /\ UNCHANGED <<config_vars, ui_vars, session_vars, dropped_chunks, buffer_progress,
                   audio_queue, transcription_queue, ds_running, ds_stream,
                   ds_thread, acc_vars, disp_vars, ctl_vars, reads, last_span>>

\* The statement of start() that raises, if any: pa.open (line 44),
\* stream.start_stream() (line 52) or Thread.start() (line 58).
StartOutcomes == {"ok", "open", "start_stream", "thread"}

\* DeviceStream.start(), lines 41-63, on the DeviceStream just constructed for
\* device d: the assignments made before the statement that raises stay (the
\* handler of lines 61-63 logs and returns False).
DsStart(s, d, outcome) ==
    /\ ctl_pc = "idle"
    /\ rd_pc[s][d] = "none" /\ ds_thread[s][d] = "None"
    /\ ~ds_running[s][d] /\ ~ds_stream[s][d]
    /\ ds_stream' = [ds_stream EXCEPT ![s][d] = outcome # "open"]
    /\ ds_running' = [ds_running EXCEPT ![s][d] = outcome \in {"ok", "thread"}]
    /\ ds_thread' = [ds_thread EXCEPT ![s][d] =
                         IF outcome = "ok" THEN "started"
                         ELSE IF outcome = "thread" THEN "unstarted" ELSE "None"]
    /\ rd_pc' = [rd_pc EXCEPT ![s][d] = IF outcome = "ok" THEN "loop" ELSE "none"]
    /\ event' = [Ev("ds_start") EXCEPT !.kind = outcome, !.by = s, !.mode = d,
                                       !.result = (outcome = "ok")]
    /\ UNCHANGED <<config_vars, ui_vars, session_vars, dropped_chunks, buffer_progress,
                   audio_queue, transcription_queue, acc_vars, disp_vars, ctl_vars,
                   reads, last_span>>

\* DeviceStream.stop(), line 87: _running is cleared; a reader inside its loop
\* has its last read under way.
StopFlag(s, d) ==
    /\ ds_running' = [ds_running EXCEPT ![s][d] = FALSE]
    /\ rd_pc' = [rd_pc EXCEPT ![s][d] = IF @ = "loop" THEN "last" ELSE @]

\* Line 89: Thread.join() of a thread that was never started raises RuntimeError.
JoinRaises(s, d) == ds_thread[s][d] = "unstarted"

\* Lines 88-89: there is no thread to join, or join(timeout=3) returns because
\* the reader ended, or gives up on a reader blocked in its read.
JoinReturns(s, d) == ds_thread[s][d] = "None" \/ rd_pc[s][d] \in {"done", "last"}

\* Lines 90-97: the thread is forgotten and the stream closed.
StopClose(s, d) ==
    /\ ds_thread' = [ds_thread EXCEPT ![s][d] = "None"]
    /\ ds_stream' = [ds_stream EXCEPT ![s][d] = FALSE]

\* DeviceStream.stop() called on its own, line 87.
DsStopBegin(s, d) ==
    /\ ctl_pc = "idle"
    /\ StopFlag(s, d)
    /\ ctl_pc' = "ds_join"
    /\ ctl_i' = d
    /\ event' = Tau
    /\ UNCHANGED <<config_vars, ui_vars, session_vars, dropped_chunks, buffer_progress,
                   audio_queue, transcription_queue, ds_stream, ds_thread, acc_vars,
                   disp_vars, reads, last_span>>

\* DeviceStream.stop() called on its own, lines 88-97: it returns, or the join
\* raises and nothing after it is executed.
DsStopEnd(s) ==
    /\ ctl_pc = "ds_join"
    /\ LET ev == [Ev("ds_stop") EXCEPT !.by = s, !.mode = ctl_i]
       IN  IF JoinRaises(s, ctl_i)
           THEN /\ event' = [ev EXCEPT !.kind = "raised"]
                /\ UNCHANGED <<ds_stream, ds_thread>>
           ELSE /\ JoinReturns(s, ctl_i)
                /\ StopClose(s, ctl_i)
                /\ event' = [ev EXCEPT !.result = TRUE]
    /\ ctl_pc' = "idle"
    /\ ctl_i' = 0
    /\ UNCHANGED <<config_vars, ui_vars, session_vars, dropped_chunks, buffer_progress,
                   audio_queue, transcription_queue, ds_running, rd_pc, acc_vars,
                   disp_vars, reads, last_span>>

\* ---------------------------------------------------- ResampleAccumulator
\* A channel that admits one item more than its capacity.
HasRoomOffByOne(q) == Len(q) <= HandoffCapacity

\* queue.Queue(maxsize=5).put_nowait / put: there is room for one more item.
HasRoom(q) == Len(q) < HandoffCapacity

\* A blocking put in place of put_nowait: the step waits for room.
PutWaitsForRoom(q) == Len(q) < HandoffCapacity

\* Line 382: put_nowait returns or raises queue.Full at once; it never waits.
PutNowaitReturns(q) == TRUE

\* A drop-oldest policy in place of drop-newest: a full channel loses its head.
FlushDropOldest(buf, count, q) ==
    IF ~WindowFull(count, samples_threshold)
    THEN [kind |-> "append", span |-> <<>>, buf |-> buf, count |-> count,
          q |-> q, dropped |-> 0]
    ELSE LET seed == Reseed(buf, overlap_samples)
         IN  IF IsSilent(buf)
             THEN [kind |-> "silent", span |-> buf, buf |-> seed.buf,
                   count |-> seed.count, q |-> q, dropped |-> 0]
             ELSE IF HasRoom(q)
             THEN [kind |-> "enqueued", span |-> buf, buf |-> seed.buf,
                   count |-> seed.count, q |-> Append(q, buf), dropped |-> 0]
             ELSE [kind |-> "dropped", span |-> buf, buf |-> seed.buf,
                   count |-> seed.count, q |-> Append(Tail(q), buf), dropped |-> 1]

\* Lines 362-394: what one loop iteration makes of the window `buf` (already
\* holding the new chunk) when the hand-off channel is `q`:
\* the step's kind, the span formed, the window left, the channel and the
\* number of chunks dropped.
Flush(buf, count, q) ==
    IF ~WindowFull(count, samples_threshold)
    THEN [kind |-> "append", span |-> <<>>, buf |-> buf, count |-> count,
          q |-> q, dropped |-> 0]
    ELSE LET seed == Reseed(buf, overlap_samples)
         IN  IF IsSilent(buf)
             THEN [kind |-> "silent", span |-> buf, buf |-> seed.buf,
                   count |-> seed.count, q |-> q, dropped |-> 0]
             ELSE IF HasRoom(q)
             THEN [kind |-> "enqueued", span |-> buf, buf |-> seed.buf,
                   count |-> seed.count, q |-> Append(q, buf), dropped |-> 0]
             ELSE [kind |-> "dropped", span |-> buf, buf |-> seed.buf,
                   count |-> seed.count, q |-> q, dropped |-> 1]

\* A window that takes the new chunk in front.
ExtendFront(window, x) == x \o window

\* Lines 347 and 363: accumulator.append(audio_float); the window is the
\* concatenation of the list.
Extend(window, x) == window \o x

\* _process_audio, lines 326-394: one iteration of the loop that receives a
\* chunk.  The loop condition was true when the thread began to wait ("get")
\* or is true now.
AccStep(s) ==
    /\ \/ acc_pc[s] = "loop" /\ is_recording
       \/ acc_pc[s] = "get"
    /\ audio_queue # <<>>
    /\ PutNowaitReturns(transcription_queue)
    /\ LET chunk == Head(audio_queue)
           x == Resample(chunk.samples, chunk.rate)
           buf == Extend(accumulator[s], x)
           count == accumulated_samples[s] + Len(x)
           f == Flush(buf, count, transcription_queue)
       IN  /\ audio_queue' = Tail(audio_queue)
           /\ buffer_progress' = Min(count, samples_threshold)
           /\ accumulator' = [accumulator EXCEPT ![s] = f.buf]
           /\ accumulated_samples' = [accumulated_samples EXCEPT ![s] = f.count]
           /\ transcription_queue' = f.q
           /\ dropped_chunks' = dropped_chunks + f.dropped
           /\ last_span' = IF f.kind = "append" THEN last_span
                           ELSE [last_span EXCEPT ![s] = LastSamples(f.span, overlap_samples)]
           /\ event' = [Ev("acc") EXCEPT !.kind = f.kind, !.by = s, !.span = f.span]
    /\ acc_pc' = [acc_pc EXCEPT ![s] = "loop"]
    /\ UNCHANGED <<config_vars, ui_vars, session_vars, reader_vars, disp_vars, ctl_vars, reads>>

\* An accumulator that an exception of the loop body ends.
ErrorEndsLoop == "done"

\* Lines 398-399: `except Exception` logs inside the loop, which goes on.
AfterError == "loop"

\* Lines 326-345 and 398-399: the iteration receives a chunk that has to be
\* resampled and the resampler raises: the statements up to line 394 are
\* skipped, the exception is logged.
AccRaise(s) ==
    /\ \/ acc_pc[s] = "loop" /\ is_recording
       \/ acc_pc[s] = "get"
    /\ audio_queue # <<>>
    /\ Head(audio_queue).rate # TargetRate
    /\ audio_queue' = Tail(audio_queue)
    /\ acc_pc' = [acc_pc EXCEPT ![s] = AfterError]
    /\ event' = [Ev("acc_raise") EXCEPT !.by = s]
    /\ UNCHANGED <<config_vars, ui_vars, session_vars, reader_vars, disp_vars, ctl_vars, reads,
                   dropped_chunks, buffer_progress, transcription_queue,
                   accumulator, accumulated_samples, last_span>>

\* Line 328: the ingest channel is empty and the thread waits in get(timeout=1).
AccWait(s) ==
    /\ acc_pc[s] = "loop" /\ is_recording
    /\ audio_queue = <<>>
    /\ acc_pc' = [acc_pc EXCEPT ![s] = "get"]
    /\ event' = Tau
    /\ UNCHANGED <<config_vars, ui_vars, session_vars, reader_vars, disp_vars, ctl_vars, reads,
                   dropped_chunks, buffer_progress, audio_queue, transcription_queue,
                   accumulator, accumulated_samples, last_span>>

\* Lines 396-397: get timed out (queue.Empty), back to the loop condition.
AccTimeout(s) ==
    /\ acc_pc[s] = "get"
    /\ audio_queue = <<>>
    /\ acc_pc' = [acc_pc EXCEPT ![s] = "loop"]
    /\ event' = Tau
    /\ UNCHANGED <<config_vars, ui_vars, session_vars, reader_vars, disp_vars, ctl_vars, reads,
                   dropped_chunks, buffer_progress, audio_queue, transcription_queue,
                   accumulator, accumulated_samples, last_span>>

\* A thread that ends after its loop without the flush.
AfterLoopNoFlush(window) == "done"

\* Lines 401-402: `if accumulator:` after the loop.
AfterLoop(window) == IF window # <<>> THEN "flush" ELSE "done"

\* Lines 326 and 401-404: the loop condition is false; with a non-empty window
\* the thread goes on to the flush, otherwise it ends.
AccLeave(s) ==
    /\ acc_pc[s] = "loop" /\ ~is_recording
    /\ acc_pc' = [acc_pc EXCEPT ![s] = AfterLoop(accumulator[s])]
    /\ event' = Tau
    /\ UNCHANGED <<config_vars, ui_vars, session_vars, reader_vars, disp_vars, ctl_vars, reads,
                   dropped_chunks, buffer_progress, audio_queue, transcription_queue,
                   accumulator, accumulated_samples, last_span>>

\* Line 405: put(full_audio, timeout=5) finds room and enqueues the window.
FlushPut(q, full_audio) == Append(q, full_audio)

AccFlush(s) ==
    /\ acc_pc[s] = "flush"
    /\ HasRoom(transcription_queue)
    /\ transcription_queue' = FlushPut(transcription_queue, accumulator[s])
    /\ last_span' = [last_span EXCEPT ![s] = <<>>]
    /\ event' = [Ev("acc") EXCEPT !.kind = "flush", !.by = s, !.span = accumulator[s]]
    /\ acc_pc' = [acc_pc EXCEPT ![s] = "done"]
    /\ accumulator' = [accumulator EXCEPT ![s] = <<>>]
    /\ accumulated_samples' = [accumulated_samples EXCEPT ![s] = 0]
    /\ UNCHANGED <<config_vars, ui_vars, session_vars, reader_vars, disp_vars, ctl_vars, reads,
                   dropped_chunks, buffer_progress, audio_queue>>

\* Lines 405-407: the channel stayed full for 5 s; queue.Full is logged.
AccFlushFull(s) ==
    /\ acc_pc[s] = "flush"
    /\ ~HasRoom(transcription_queue)
    /\ last_span' = [last_span EXCEPT ![s] = <<>>]
    /\ event' = [Ev("acc") EXCEPT !.kind = "flush_full", !.by = s, !.span = accumulator[s]]
    /\ acc_pc' = [acc_pc EXCEPT ![s] = "done"]
    /\ accumulator' = [accumulator EXCEPT ![s] = <<>>]
    /\ accumulated_samples' = [accumulated_samples EXCEPT ![s] = 0]
    /\ UNCHANGED <<config_vars, ui_vars, session_vars, reader_vars, disp_vars, ctl_vars, reads,
                   dropped_chunks, buffer_progress, audio_queue, transcription_queue>>

\* ------------------------------------------------- TranscriptionDispatcher
\* _transcription_worker, lines 419-421: get returns a span (the loop condition
\* holds whenever the channel is non-empty).
DispGet(s) ==
    /\ disp_pc[s] = "loop"
    /\ transcription_queue # <<>>
    /\ transcription_queue' = Tail(transcription_queue)
    /\ disp_pc' = [disp_pc EXCEPT ![s] = "got"]
    /\ disp_span' = [disp_span EXCEPT ![s] = Head(transcription_queue)]
    /\ taken' = Append(taken, s)
    /\ event' = [Ev("disp_get") EXCEPT !.by = s]
    /\ UNCHANGED <<config_vars, ui_vars, session_vars, reader_vars, acc_vars, ctl_vars, reads,
                   dropped_chunks, buffer_progress, audio_queue, last_span>>

\* Lines 423-424: the callback, if there is one now, is entered with the span;
\* without a callback the span is let go.
DispCall(s) ==
    /\ disp_pc[s] = "got"
    /\ IF transcribe_callback # NoCallback
       THEN /\ disp_pc' = [disp_pc EXCEPT ![s] = "callback"]
            /\ UNCHANGED disp_span
       ELSE /\ disp_pc' = [disp_pc EXCEPT ![s] = "loop"]
            /\ disp_span' = [disp_span EXCEPT ![s] = <<>>]
    /\ taken' = SelectSeq(taken, LAMBDA x : x # s)
    /\ event' = [Ev("disp_call") EXCEPT !.by = s, !.cb = transcribe_callback,
                                        !.span = disp_span[s]]
    /\ UNCHANGED <<config_vars, ui_vars, session_vars, reader_vars, acc_vars, ctl_vars, reads,
                   dropped_chunks, buffer_progress, audio_queue, transcription_queue,
                   last_span>>

\* A dispatcher that an exception of the callback ends.
RaiseEndsThread == "done"

\* Lines 431-432: `except Exception` logs inside the loop, which goes on.
AfterRaise == "loop"

\* Lines 423 and 431-432: the callback raises; the exception is caught and
\* logged, the span goes out of scope.
DispRaise(s) ==
    /\ disp_pc[s] = "callback"
    /\ disp_pc' = [disp_pc EXCEPT ![s] = AfterRaise]
    /\ disp_span' = [disp_span EXCEPT ![s] = <<>>]
    /\ event' = [Ev("disp_raise") EXCEPT !.by = s]
    /\ UNCHANGED <<config_vars, ui_vars, session_vars, reader_vars, acc_vars, ctl_vars, reads,
                   dropped_chunks, buffer_progress, audio_queue, transcription_queue,
                   taken, last_span>>

\* Lines 424-428: the callback returns; the span goes out of scope.
DispReturn(s) ==
    /\ disp_pc[s] = "callback"
    /\ disp_pc' = [disp_pc EXCEPT ![s] = "loop"]
    /\ disp_span' = [disp_span EXCEPT ![s] = <<>>]
    /\ event' = Tau
    /\ UNCHANGED <<config_vars, ui_vars, session_vars, reader_vars, acc_vars, ctl_vars, reads,
                   dropped_chunks, buffer_progress, audio_queue, transcription_queue,
                   taken, last_span>>

\* A loop that never ends.
ContinuesForever == TRUE

\* A loop that ends with the running flag, whatever the channel holds.
ContinuesWhileRecording == is_recording

\* Line 419: the loop condition of _transcription_worker.
DispatcherContinues == is_recording \/ transcription_queue # <<>>

\* Line 419: is_recording is false and the channel is empty: the thread ends
\* (at the latest one get(timeout=2) later).
DispExit(s) ==
    /\ disp_pc[s] = "loop"
    /\ ~DispatcherContinues
    /\ disp_pc' = [disp_pc EXCEPT ![s] = "done"]
    /\ event' = Tau
    /\ UNCHANGED <<config_vars, ui_vars, session_vars, reader_vars, acc_vars, ctl_vars, reads,
                   dropped_chunks, buffer_progress, audio_queue, transcription_queue,
                   disp_span, taken, last_span>>

\* ------------------------------------------------------- CaptureSupervisor
DeviceName(d) == <<"loopback", d>>

\* The index of the default output device.
SpeakersIndex == MaxHostDevices + 2

\* Line 145: the first index whose get_device_info_by_index raises (one past
\* the table if none does).
RECURSIVE FirstError(_, _)
FirstError(table, i) ==
    IF i > Len(table) \/ table[i] = "error" THEN i ELSE FirstError(table, i + 1)

\* Lines 144-160: the loopback devices among the first n of the table, in order.
RECURSIVE Scan(_, _)
Scan(table, n) ==
    IF n = 0 THEN <<>>
    ELSE Scan(table, n - 1) \o
         (IF table[n] \in {"flagged", "named"} THEN <<n>> ELSE <<>>)

\* An enumeration that gives nothing when a query of the scan raises.
NothingOnError(found) == <<>>

\* Lines 193-197: the handler of the outer try logs; the devices appended
\* before the exception are returned.
ReturnOnError(found) == found

\* A default loopback device that goes first whether it was found or not.
WithDefaultAgain(found, default) ==
    IF default = 0 THEN found ELSE <<default>> \o found

\* Lines 162-174: the default loopback device goes first unless it was found;
\* if the query raises the list stays as it is.
WithDefault(found, default) ==
    IF default = 0 \/ \E i \in DOMAIN found : found[i] = default
    THEN found ELSE <<default>> \o found

\* Lines 176-191: with no device so far, the default output device if it is a
\* loopback device; an exception is passed over.
WithSpeakers(found, speakers) ==
    IF found = <<>> /\ speakers = "loopback" THEN <<SpeakersIndex>> ELSE found

\* get_loopback_devices(), lines 138-197: the indices of the devices returned.
LoopbackDevices(host) ==
    IF ~host.api THEN ReturnOnError(<<>>)
    ELSE LET stop == FirstError(host.table, 1)
         IN  IF stop <= Len(host.table)
             THEN ReturnOnError(Scan(host.table, stop - 1))
             ELSE WithSpeakers(WithDefault(Scan(host.table, Len(host.table)),
                                           host.default),
                               host.speakers)

\* get_loopback_devices() called by the control thread: no exception leaves
\* the outer try (line 193 catches Exception) and nothing of the object is
\* written.
GetLoopbackDevices(host) ==
    /\ ctl_pc = "idle"
    /\ event' = [Ev("enumerate") EXCEPT !.host = host, !.devs = LoopbackDevices(host),
                                        !.result = TRUE]
    /\ UNCHANGED <<config_vars, ui_vars, session_vars, reader_vars, acc_vars, disp_vars,
                   ctl_vars, reads, dropped_chunks, buffer_progress, audio_queue,
                   transcription_queue, last_span>>

\* What get_loopback_devices() may return: device lists without repetition.
EnumLists ==
    {l \in UNION {[1..n -> Devices] : n \in 0..NumDevices} :
        \A i, j \in DOMAIN l : i # j => l[i] # l[j]}

\* A loop that gives up at the first device that does not open.
RECURSIVE OpenAllAbort(_, _)
OpenAllAbort(devs, ok) ==
    IF devs = <<>> THEN <<>>
    ELSE IF Head(devs) \in ok THEN <<Head(devs)>> \o OpenAllAbort(Tail(devs), ok)
    ELSE <<>>

\* _open_all_devices, lines 210-223: the devices of `devs`, in order, whose
\* DeviceStream.start() succeeds (`ok` is the set of devices that open).
RECURSIVE OpenAll(_, _)
OpenAll(devs, ok) ==
    IF devs = <<>> THEN <<>>
    ELSE (IF Head(devs) \in ok THEN <<Head(devs)>> ELSE <<>>) \o OpenAll(Tail(devs), ok)

\* _open_single_device, lines 228-254.
OpenSingle(d, ok) == IF d \in ok THEN <<d>> ELSE <<>>

NamesOf(ds) == [i \in DOMAIN ds |-> DeviceName(ds[i])]

\* A start_recording() without its guard.
NeverAlreadyRecording == FALSE

\* Line 271: the re-entrancy guard of start_recording().
AlreadyRecording == is_recording

\* A start_recording() that goes on with no device.
NoneOpenedIgnored(opened) == FALSE

\* Lines 283 and 287: no device was opened.
NoneOpened(opened) == opened = <<>>

\* A start_recording() that keeps the counter of the session before.
DroppedCarriedOver == dropped_chunks

\* Line 291: the value start_recording() gives dropped_chunks.
DroppedAtStart == 0

\* start_recording(device_index, transcribe_callback), lines 271-302.
\* mode 0 is 'auto'/None, mode d >= 1 is the device index d.
StartSession(mode, cb, devs, ok, max_sessions) ==
    /\ ctl_pc = "idle"
    /\ mode # 0 => devs = <<>>
    /\ LET opened == IF mode = 0 THEN OpenAll(devs, ok) ELSE OpenSingle(mode, ok)
           ev == [Ev("start") EXCEPT !.mode = mode, !.devs = devs, !.ok = ok, !.cb = cb]
       IN  IF AlreadyRecording
           THEN /\ event' = ev
                /\ UNCHANGED <<config_vars, session_vars, reader_vars, acc_vars,
                               disp_vars, ctl_vars, reads, dropped_chunks,
                               buffer_progress, audio_queue, transcription_queue,
                               last_span>>
           ELSE IF NoneOpened(opened)
           THEN /\ transcribe_callback' = cb
                /\ active_device_names' = <<>>
                /\ device_streams' = <<>>
                /\ event' = ev
                /\ UNCHANGED <<config_vars, is_recording, record_thread,
                               transcription_thread, session, reader_vars, acc_vars,
                               disp_vars, ctl_vars, reads, dropped_chunks,
                               buffer_progress, audio_queue, transcription_queue,
                               last_span>>
           ELSE /\ session < max_sessions
                /\ LET s == session + 1
                   IN  /\ session' = s
                       /\ transcribe_callback' = cb
                       /\ device_streams' = opened
                       /\ active_device_names' = NamesOf(opened)
                       /\ ds_running' = [ds_running EXCEPT ![s] =
                              [d \in Devices |-> \E i \in DOMAIN opened : opened[i] = d]]
                       /\ ds_stream' = [ds_stream EXCEPT ![s] =
                              [d \in Devices |-> \E i \in DOMAIN opened : opened[i] = d]]
                       /\ ds_thread' = [ds_thread EXCEPT ![s] =
                              [d \in Devices |->
                                  IF \E i \in DOMAIN opened : opened[i] = d
                                  THEN "started" ELSE "None"]]
                       /\ rd_pc' = [rd_pc EXCEPT ![s] =
                              [d \in Devices |->
                                  IF \E i \in DOMAIN opened : opened[i] = d
                                  THEN "loop" ELSE "none"]]
                       /\ is_recording' = TRUE
                       /\ dropped_chunks' = DroppedAtStart
                       /\ record_thread' = s
                       /\ acc_pc' = [acc_pc EXCEPT ![s] = "loop"]
                       /\ transcription_thread' = s
                       /\ disp_pc' = [disp_pc EXCEPT ![s] = "loop"]
                       /\ event' = [ev EXCEPT !.result = TRUE]
                /\ UNCHANGED <<config_vars, accumulator, accumulated_samples,
                               disp_span, taken, ctl_vars, reads, buffer_progress,
                               audio_queue, transcription_queue, last_span>>

\* start_recording() called by anything but the window: the window's fields
\* stay as they are.
StartRecording(mode, cb, devs, ok, max_sessions) ==
    /\ StartSession(mode, cb, devs, ok, max_sessions)
    /\ UNCHANGED ui_vars

\* A stop_recording() without its guard.
StopsAnyway == FALSE

\* Line 438: the guard of stop_recording().
NotRecording == ~is_recording

\* stop_recording(), lines 438-439: not recording, return at once.
StopNoop ==
    /\ ctl_pc = "idle"
    /\ NotRecording
    /\ event' = Ev("stop_noop")
    /\ UNCHANGED <<config_vars, ui_vars, session_vars, reader_vars, acc_vars, disp_vars,
                   ctl_vars, reads, dropped_chunks, buffer_progress, audio_queue,
                   transcription_queue, last_span>>

\* Line 441: the running flag is cleared.
StopBegin ==
    /\ ctl_pc = "idle"
    /\ ~NotRecording
    /\ is_recording' = FALSE
    /\ ctl_pc' = "stop_devices"
    /\ ctl_i' = 1
    /\ event' = Tau
    /\ UNCHANGED <<config_vars, ui_vars, device_streams, active_device_names,
                   transcribe_callback, record_thread, transcription_thread, session,
                   reader_vars, acc_vars, disp_vars, reads, dropped_chunks,
                   buffer_progress, audio_queue, transcription_queue, last_span>>

\* DeviceStream.stop(), line 87, for the next stream of the loop of line 444:
\* _running is cleared; a reader inside its loop has its last read under way.
StopDeviceFlag ==
    /\ ctl_pc = "stop_devices"
    /\ ctl_i <= Len(device_streams)
    /\ StopFlag(session, device_streams[ctl_i])
    /\ ctl_pc' = "join_reader"
    /\ event' = Tau
    /\ UNCHANGED <<config_vars, ui_vars, session_vars, ds_stream, ds_thread, acc_vars, disp_vars,
                   ctl_i, reads, dropped_chunks, buffer_progress, audio_queue,
                   transcription_queue, last_span>>

\* DeviceStream.stop(), lines 88-97: join(timeout=3) returns because the reader
\* ended, or gives up on a reader blocked in its read; the stream is closed.
StopDeviceJoin ==
    /\ ctl_pc = "join_reader"
    /\ LET d == device_streams[ctl_i]
       IN  /\ ~JoinRaises(session, d)
           /\ JoinReturns(session, d)
           /\ StopClose(session, d)
           /\ event' = Tau
    /\ ctl_i' = ctl_i + 1
    /\ ctl_pc' = "stop_devices"
    /\ UNCHANGED <<config_vars, ui_vars, session_vars, ds_running, rd_pc, acc_vars, disp_vars,
                   reads, dropped_chunks, buffer_progress, audio_queue,
                   transcription_queue, last_span>>

\* A stop_recording() that empties the channels before it joins the threads.
DrainBeforeJoins == "drain_audio"

\* Lines 448-451: what stop_recording() does after the loop over the streams:
\* the join of the accumulator thread.
AfterDevices == "join_record"

\* Line 446: every stream was stopped; the list is cleared.
StopDevicesDone ==
    /\ ctl_pc = "stop_devices"
    /\ ctl_i > Len(device_streams)
    /\ device_streams' = <<>>
    /\ ctl_pc' = AfterDevices
    /\ ctl_i' = 0
    /\ event' = Tau
    /\ UNCHANGED <<config_vars, ui_vars, is_recording, active_device_names,
                   transcribe_callback, record_thread, transcription_thread, session,
                   reader_vars, acc_vars, disp_vars, reads, dropped_chunks,
                   buffer_progress, audio_queue, transcription_queue, last_span>>

\* Lines 449-451: join(timeout=5) of the accumulator thread returns because the
\* thread ended, or gives up on a thread blocked in its flush on a full channel.
StopJoinRecord ==
    /\ ctl_pc = "join_record"
    /\ \/ record_thread = 0
       \/ /\ record_thread # 0
          /\ \/ acc_pc[record_thread] = "done"
             \/ acc_pc[record_thread] = "flush" /\ ~HasRoom(transcription_queue)
    /\ event' = Tau
    /\ record_thread' = 0
    /\ ctl_pc' = "join_transcription"
    /\ UNCHANGED <<config_vars, ui_vars, is_recording, device_streams, active_device_names,
                   transcribe_callback, transcription_thread, session, reader_vars,
                   acc_vars, disp_vars, ctl_i, reads, dropped_chunks, buffer_progress,
                   audio_queue, transcription_queue, last_span>>

\* A join without a timeout: it returns when the thread has ended.
JoinWithoutTimeout(pc) == pc = "done"

\* Line 456: transcription_thread.join(timeout=60) returns because the thread
\* ended, or gives up on a thread whose callback has not returned.
DispatcherJoinReturns(pc) == pc \in {"done", "callback"}

\* Lines 454-457: the join of the dispatcher thread.
StopJoinTranscription ==
    /\ ctl_pc = "join_transcription"
    /\ \/ transcription_thread = 0
       \/ /\ transcription_thread # 0
          /\ DispatcherJoinReturns(disp_pc[transcription_thread])
    /\ event' = Tau
    /\ transcription_thread' = 0
    /\ ctl_pc' = "drain_audio"
    /\ UNCHANGED <<config_vars, ui_vars, is_recording, device_streams, active_device_names,
                   transcribe_callback, record_thread, session, reader_vars,
                   acc_vars, disp_vars, ctl_i, reads, dropped_chunks, buffer_progress,
                   audio_queue, transcription_queue, last_span>>

\* Lines 460-464: the ingest channel is emptied.
StopDrainAudio ==
    /\ ctl_pc = "drain_audio"
    /\ audio_queue' = <<>>
    /\ ctl_pc' = "drain_transcription"
    /\ event' = [Ev("stop_drain") EXCEPT !.kind = "ingest"]
    /\ UNCHANGED <<config_vars, ui_vars, session_vars, reader_vars, acc_vars, disp_vars,
                   ctl_i, reads, dropped_chunks, buffer_progress,
                   transcription_queue, last_span>>

\* Lines 467-471: the hand-off channel is emptied.
StopDrainTranscription ==
    /\ ctl_pc = "drain_transcription"
    /\ transcription_queue' = <<>>
    /\ ctl_pc' = "finish"
    /\ event' = [Ev("stop_drain") EXCEPT !.kind = "handoff"]
    /\ UNCHANGED <<config_vars, ui_vars, session_vars, reader_vars, acc_vars, disp_vars,
                   ctl_i, reads, dropped_chunks, buffer_progress, audio_queue,
                   last_span>>

\* Lines 476-478: the callback and the device names are cleared; stop returns.
StopFinish ==
    /\ ctl_pc = "finish"
    /\ transcribe_callback' = NoCallback
    /\ active_device_names' = <<>>
    /\ ctl_pc' = "idle"
    /\ event' = Ev("stop_return")
    /\ UNCHANGED <<config_vars, ui_vars, is_recording, device_streams, record_thread,
                   transcription_thread, session, reader_vars, acc_vars, disp_vars,
                   ctl_i, reads, dropped_chunks, buffer_progress, audio_queue,
                   transcription_queue, last_span>>

\* ----------------------------------------------------------- specification
\* The calls of start_recording() explored together with the pipeline: all
\* devices requested, the platform listing every device, at most one of them
\* opening (the other is in use elsewhere).
PipelineStarts ==
    {[mode |-> 0, cb |-> "cbA", devs |-> [d \in Devices |-> d], ok |-> ok] :
        ok \in {{}} \cup {{d} : d \in Devices}}

\* Every call of start_recording(): any mode, callback, device list and set of
\* the attempted devices that open.
AllStarts ==
    {c \in [mode : {0} \cup Devices, cb : Callbacks, devs : EnumLists,
            ok : SUBSET Devices] :
        /\ c.mode # 0 => c.devs = <<>> /\ c.ok \subseteq {c.mode}
        /\ c.mode = 0 => c.ok \subseteq {c.devs[i] : i \in DOMAIN c.devs}}

\* The steps of the threads up to the end of the accumulator's loop.
LoopThreads(max_reads) ==
    \/ \E s \in Sessions, d \in Devices : Read(s, d, max_reads)
    \/ \E s \in Sessions, d \in Devices : ReadLast(s, d, max_reads)
    \/ \E s \in Sessions, d \in Devices : ReadError(s, d)
    \/ \E s \in Sessions, d \in Devices : ReadExit(s, d)
    \/ \E s \in Sessions : AccStep(s)
    \/ \E s \in Sessions : AccWait(s)
    \/ \E s \in Sessions : AccTimeout(s)
    \/ \E s \in Sessions : AccLeave(s)
    \/ \E s \in Sessions : DispGet(s)
    \/ \E s \in Sessions : DispCall(s)
    \/ \E s \in Sessions : DispReturn(s)
    \/ \E s \in Sessions : DispRaise(s)
    \/ \E s \in Sessions : DispExit(s)

Threads(max_reads) ==
    \/ LoopThreads(max_reads)
    \/ \E s \in Sessions : AccFlush(s)

StopRecording ==
    \/ StopNoop
    \/ StopBegin
    \/ StopDeviceFlag
    \/ StopDeviceJoin
    \/ StopDevicesDone
    \/ StopJoinRecord
    \/ StopJoinTranscription
    \/ StopDrainAudio
    \/ StopDrainTranscription
    \/ StopFinish

\* The pipeline: few calls of start_recording(), many chunks.
Next ==
    \/ \E c \in PipelineStarts : StartRecording(c.mode, c.cb, c.devs, c.ok, MaxSessions)
    \/ StopRecording
    \/ Threads(MaxReads)
    \/ \E s \in Sessions : AccFlushFull(s)

Spec == Init /\ [][Next]_vars

\* The control thread: every call of start_recording(), few frames (too few
\* to fill the hand-off channel, so that the flush never finds it full).
NextControl ==
    \/ \E c \in AllStarts : StartRecording(c.mode, c.cb, c.devs, c.ok, CtlSessions)
    \/ StopRecording
    \/ Threads(CtlReads)

\* One configuration and one signal.
InitControl ==
    /\ Init
    /\ samples_threshold = MaxThreshold
    /\ overlap_samples = 1
    /\ signal = "ramp"

SpecControl == InitControl /\ [][NextControl]_vars

\* Successive sessions on one AudioCapture: the calls of the pipeline in which
\* one device opens, the first device in the first session and the last device
\* in the sessions that follow, enough frames to fill the hand-off channel and drop
\* a span before the second call.  With a window of one sample and no overlap
\* the window is empty whenever an accumulator leaves its loop: there is no
\* flush to take.
SessionStarts ==
    {c \in PipelineStarts : c.ok = {IF session = 0 THEN 1 ELSE NumDevices}}

NextSessions ==
    \/ \E c \in SessionStarts : StartRecording(c.mode, c.cb, c.devs, c.ok, SesSessions)
    \/ StopRecording
    \/ LoopThreads(SesReads)

\* One configuration and one signal.
InitSessions ==
    /\ Init
    /\ samples_threshold = 1
    /\ overlap_samples = 0
    /\ signal = "ramp"

SpecSessions == InitSessions /\ [][NextSessions]_vars

\* The steps of stop_recording() after its guard: the control thread runs.
StopProgress ==
    \/ StopDeviceFlag
    \/ StopDeviceJoin
    \/ StopDevicesDone
    \/ StopJoinRecord
    \/ StopJoinTranscription
    \/ StopDrainAudio
    \/ StopDrainTranscription
    \/ StopFinish

\* The steps of an accumulator thread that wait for nothing, or for at most the
\* timeout of its get or of its put.
AccProgress(s) ==
    AccStep(s) \/ AccTimeout(s) \/ AccLeave(s) \/ AccFlush(s) \/ AccFlushFull(s)

\* The steps of a dispatcher thread outside the callback.
DispProgress(s) == DispGet(s) \/ DispCall(s) \/ DispExit(s)

\* The calls of the pipeline in which no device but the first opens.
LiveStarts == {c \in PipelineStarts : c.ok \subseteq {1}}

\* Shutdown: one configuration, enough frames to fill the hand-off channel.
\* The control thread and the threads' own code keep running; a hardware read
\* and a callback may never return.
NextLive ==
    \/ \E c \in LiveStarts : StartRecording(c.mode, c.cb, c.devs, c.ok, LiveSessions)
    \/ StopRecording
    \/ Threads(LiveReads)
    \/ \E s \in Sessions : AccFlushFull(s)

InitLive ==
    /\ Init
    /\ samples_threshold = 1
    /\ overlap_samples = 1
    /\ signal = "ramp"

SpecLive ==
    /\ InitLive /\ [][NextLive]_vars
    /\ WF_vars(StopProgress)
    /\ \A s \in Sessions : WF_vars(AccProgress(s)) /\ WF_vars(DispProgress(s))

\* A hardware read under way returns (lines 70-77), or the loop condition is
\* found false (line 68).
ReadProgress(s, d) == ReadLast(s, d, LiveReads) \/ ReadExit(s, d)

\* The callback returns or raises (lines 423-432).
CallbackProgress(s) == DispReturn(s) \/ DispRaise(s)

\* Shutdown in which, besides, every hardware read and every callback returns.
SpecQuiesce ==
    /\ InitLive /\ [][NextLive]_vars
    /\ WF_vars(StopProgress)
    /\ \A s \in Sessions :
          /\ WF_vars(AccProgress(s))
          /\ WF_vars(DispProgress(s))
          /\ WF_vars(CallbackProgress(s))
          /\ \A d \in Devices : WF_vars(ReadProgress(s, d))

\* ------------------------------------------------------------ TranscriberUI
\* ui.py, lines 324-344: _start_live_transcription from the moment the model is
\* loaded: the flag and the offset are set, start_recording() is called with
\* on_audio_chunk, and the flag is cleared again if it returns False.
UiStart(ok) ==
    /\ ui_pc = "idle"
    /\ StartSession(0, OnAudioChunk, [d \in Devices |-> d], ok, UiSessions)
    /\ live_segment_offset' = 0
    /\ is_live_transcribing' = event'.result
    /\ ui_pc' = IF event'.result THEN "live" ELSE "idle"
    /\ UNCHANGED <<chunk_offset, transcript, pending>>

\* ui.py, lines 382-388: _stop_live_transcription clears the flag first.
UiStopBegin ==
    /\ ui_pc = "live"
    /\ is_live_transcribing' = FALSE
    /\ ui_pc' = "stopping"
    /\ pending' = transcription_queue
    /\ event' = Ev("ui_stop")
    /\ UNCHANGED <<config_vars, session_vars, reader_vars, acc_vars, disp_vars,
                   ctl_vars, reads, dropped_chunks, buffer_progress, audio_queue,
                   transcription_queue, last_span, live_segment_offset, chunk_offset,
                   transcript>>

\* ui.py, line 390: the stop_recording() that _stop_live_transcription calls.
UiStopRecording ==
    /\ ui_pc = "stopping"
    /\ \/ StopBegin
       \/ StopDeviceFlag
       \/ StopDeviceJoin
       \/ StopDevicesDone
       \/ StopJoinRecord
       \/ StopJoinTranscription
       \/ StopDrainAudio
       \/ StopDrainTranscription
       \/ StopFinish

\* ui.py, lines 392-402: stop_recording() has returned; the offset is reset.
UiStopEnd ==
    /\ ui_pc = "stopping"
    /\ ctl_pc = "idle"
    /\ ~is_recording
    /\ live_segment_offset' = 0
    /\ ui_pc' = "idle"
    /\ event' = Ev("ui_stop_end")
    /\ UNCHANGED <<config_vars, session_vars, reader_vars, acc_vars, disp_vars,
                   ctl_vars, reads, dropped_chunks, buffer_progress, audio_queue,
                   transcription_queue, last_span, is_live_transcribing, chunk_offset,
                   transcript, pending>>

\* ui.py, line 295: the test on_audio_chunk makes before anything else.
StillTranscribing == is_live_transcribing

\* ui.py, lines 293-296: on_audio_chunk finds the flag cleared and returns;
\* the dispatcher lets the span go (audio_capture.py, lines 424-428).
OnChunkSkip(s) ==
    /\ disp_pc[s] = "callback"
    /\ chunk_offset[s] = NoOffset
    /\ ~StillTranscribing
    /\ disp_pc' = [disp_pc EXCEPT ![s] = "loop"]
    /\ disp_span' = [disp_span EXCEPT ![s] = <<>>]
    /\ event' = [Ev("on_chunk_skip") EXCEPT !.by = s, !.span = disp_span[s]]
    /\ UNCHANGED <<config_vars, ui_vars, session_vars, reader_vars, acc_vars, ctl_vars,
                   reads, dropped_chunks, buffer_progress, audio_queue,
                   transcription_queue, taken, last_span>>

\* ui.py, lines 298-303: the offset of this span is read; the transcription
\* begins.
OnChunkBegin(s) ==
    /\ disp_pc[s] = "callback"
    /\ chunk_offset[s] = NoOffset
    /\ StillTranscribing
    /\ chunk_offset' = [chunk_offset EXCEPT ![s] = <<live_segment_offset>>]
    /\ event' = [Ev("on_chunk") EXCEPT !.by = s, !.span = disp_span[s]]
    /\ UNCHANGED <<config_vars, session_vars, reader_vars, acc_vars, disp_vars, ctl_vars,
                   reads, dropped_chunks, buffer_progress, audio_queue,
                   transcription_queue, last_span, ui_pc, is_live_transcribing,
                   live_segment_offset, transcript, pending>>

\* ui.py, lines 306-311: the length of the span less the overlap.
NetDuration(audio_data) ==
    IF Len(audio_data) > overlap_samples THEN Len(audio_data) - overlap_samples ELSE 0

\* ui.py, lines 303-321: the segments of the span are added to the transcript
\* with the offset read at the beginning, the offset advances by the net
\* duration and on_audio_chunk returns (audio_capture.py, lines 424-428).
OnChunkEnd(s) ==
    /\ disp_pc[s] = "callback"
    /\ chunk_offset[s] # NoOffset
    /\ transcript' = Append(transcript, [span |-> disp_span[s], offset |-> chunk_offset[s][1]])
    /\ live_segment_offset' = chunk_offset[s][1] + NetDuration(disp_span[s])
    /\ chunk_offset' = [chunk_offset EXCEPT ![s] = NoOffset]
    /\ disp_pc' = [disp_pc EXCEPT ![s] = "loop"]
    /\ disp_span' = [disp_span EXCEPT ![s] = <<>>]
    /\ event' = [Ev("on_chunk_end") EXCEPT !.by = s, !.span = disp_span[s]]
    /\ UNCHANGED <<config_vars, session_vars, reader_vars, acc_vars, ctl_vars, reads,
                   dropped_chunks, buffer_progress, audio_queue, transcription_queue,
                   taken, last_span, ui_pc, is_live_transcribing, pending>>

\* The window on top of the pipeline: the first device opens or none does,
\* the callback is on_audio_chunk.
NextUi ==
    \/ \E ok \in {{}, {1}} : UiStart(ok)
    \/ UiStopBegin
    \/ UiStopRecording
    \/ UiStopEnd
    \/ \E s \in Sessions, d \in Devices : Read(s, d, UiReads)
    \/ \E s \in Sessions, d \in Devices : ReadLast(s, d, UiReads)
    \/ \E s \in Sessions, d \in Devices : ReadExit(s, d)
    \/ \E s \in Sessions : AccStep(s)
    \/ \E s \in Sessions : AccWait(s)
    \/ \E s \in Sessions : AccTimeout(s)
    \/ \E s \in Sessions : AccLeave(s)
    \/ \E s \in Sessions : AccFlush(s)
    \/ \E s \in Sessions : DispGet(s)
    \/ \E s \in Sessions : DispCall(s)
    \/ \E s \in Sessions : DispExit(s)
    \/ \E s \in Sessions : OnChunkSkip(s)
    \/ \E s \in Sessions : OnChunkBegin(s)
    \/ \E s \in Sessions : OnChunkEnd(s)

\* A window of two samples with an overlap of one, either signal.
InitUi ==
    /\ Init
    /\ samples_threshold = MaxThreshold
    /\ overlap_samples = 1

SpecUi == InitUi /\ [][NextUi]_vars

\* The pipeline with a resampler that may fail on any chunk it is given.
NextFault ==
    \/ \E c \in PipelineStarts : StartRecording(c.mode, c.cb, c.devs, c.ok, FaultSessions)
    \/ StopRecording
    \/ Threads(FaultReads)
    \/ \E s \in Sessions : AccRaise(s)

SpecFault == InitControl /\ [][NextFault]_vars

\* The DeviceStream objects on their own, outside any session: start() with
\* every outcome, stop() in any state, the reader threads.
Standalone == MostSessions

NextDevice ==
    \/ \E d \in Devices, o \in StartOutcomes : DsStart(Standalone, d, o)
    \/ \E d \in Devices : DsStopBegin(Standalone, d)
    \/ DsStopEnd(Standalone)
    \/ \E d \in Devices : Read(Standalone, d, DevReads)
    \/ \E d \in Devices : ReadLast(Standalone, d, DevReads)
    \/ \E d \in Devices : ReadError(Standalone, d)
    \/ \E d \in Devices : ReadExit(Standalone, d)

SpecDevice == Init /\ [][NextDevice]_vars

\* Native rates a platform reports (defaultSampleRate): half, twice and three
\* times the target rate, a rate within 1% of twice the target rate, and two
\* rates in no integer ratio to it.
ProbeRates == {8000, 22050, 32000, 32100, 44100, 48000}

\* Resampling: a running session whose first device has read one chunk of any
\* length at any of the rates; the accumulator takes it.
InitResample ==
    /\ samples_threshold = MaxThreshold
    /\ overlap_samples = 0
    /\ signal = "ramp"
    /\ is_recording = TRUE
    /\ device_streams = <<1>>
    /\ active_device_names = NamesOf(<<1>>)
    /\ transcribe_callback = "cbA"
    /\ dropped_chunks = 0
    /\ buffer_progress = 0
    /\ \E len \in 0..ProbeLen, rate \in ProbeRates :
          /\ audio_queue = <<[samples |-> [i \in 1..len |-> Frame("ramp", i)],
                               rate |-> rate]>>
          /\ reads = len
    /\ transcription_queue = <<>>
    /\ record_thread = 1
    /\ transcription_thread = 1
    /\ session = 1
    /\ ds_running = [s \in Sessions |-> [d \in Devices |-> s = 1 /\ d = 1]]
    /\ ds_stream = [s \in Sessions |-> [d \in Devices |-> s = 1 /\ d = 1]]
    /\ ds_thread = [s \in Sessions |->
                       [d \in Devices |-> IF s = 1 /\ d = 1 THEN "started" ELSE "None"]]
    /\ rd_pc = [s \in Sessions |->
                   [d \in Devices |-> IF s = 1 /\ d = 1 THEN "loop" ELSE "none"]]
    /\ acc_pc = [s \in Sessions |-> IF s = 1 THEN "loop" ELSE "none"]
    /\ accumulator = [s \in Sessions |-> <<>>]
    /\ accumulated_samples = [s \in Sessions |-> 0]
    /\ disp_pc = [s \in Sessions |-> IF s = 1 THEN "loop" ELSE "none"]
    /\ disp_span = [s \in Sessions |-> <<>>]
    /\ taken = <<>>
    /\ ui_pc = "idle"
    /\ is_live_transcribing = FALSE
    /\ live_segment_offset = 0
    /\ chunk_offset = [s \in Sessions |-> NoOffset]
    /\ transcript = <<>>
    /\ pending = <<>>
    /\ ctl_pc = "idle"
    /\ ctl_i = 0
    /\ last_span = [s \in Sessions |-> <<>>]
    /\ event = Tau

NextResample == \E s \in Sessions : AccStep(s)

SpecResample == InitResample /\ [][NextResample]_vars

\* start_recording(None, cb) on the platform `host`: _open_all_devices opens
\* what get_loopback_devices() returns (line 201).  The platforms are those
\* whose returned indices are devices of the model.
StartAuto(host, cb, ok, max_sessions) ==
    LET devs == LoopbackDevices(host)
    IN  /\ \A i \in DOMAIN devs : devs[i] \in Devices
        /\ ok \subseteq {devs[i] : i \in DOMAIN devs}
        /\ StartRecording(0, cb, devs, ok, max_sessions)

\* Enumeration: get_loopback_devices() against every platform while no session
\* runs, and start_recording() on the platform of the enumeration before it;
\* one configuration.
NextEnum ==
    \/ ~is_recording /\ \E host \in Hosts : GetLoopbackDevices(host)
    \/ /\ event.op = "enumerate"
       /\ \E ok \in SUBSET Devices : StartAuto(event.host, "cbA", ok, EnumSessions)

SpecEnum == InitControl /\ [][NextEnum]_vars

\* ------------------------------------------------------------------ claims
\* The last step formed a full window in the main loop of _process_audio.
FullSpanFormed(ev) == ev.op = "acc" /\ ev.kind \in {"silent", "enqueued", "dropped"}

\* C1: a non-silent full span formed while the hand-off channel holds
\* HandoffCapacity spans is the one discarded: the channel keeps its contents
\* and order and dropped_chunks grows by exactly 1; formed while the channel
\* is not full, it is appended and dropped_chunks is unchanged.
C1_DropNewestOnFull ==
    [][(FullSpanFormed(event') /\ ~IsSilent(event'.span)) =>
          IF Len(transcription_queue) = HandoffCapacity
          THEN /\ transcription_queue' = transcription_queue
               /\ dropped_chunks' = dropped_chunks + 1
          ELSE /\ transcription_queue' = Append(transcription_queue, event'.span)
               /\ dropped_chunks' = dropped_chunks]_vars

C1_Witness ==
    /\ FullSpanFormed(event) /\ ~IsSilent(event.span)
    /\ event.kind = "dropped"
    /\ Len(transcription_queue) = HandoffCapacity
    /\ dropped_chunks = 1

\* C2: while is_recording, the accumulator thread of the session that has a
\* chunk to consume can take its step whatever the state of the hand-off
\* channel and of the dispatcher (also inside a callback that never returns),
\* and a streaming reader can enqueue its next chunk.
C2_AccumulatorNeverWaits ==
    is_recording =>
        /\ \A s \in Sessions :
              (s = record_thread /\ acc_pc[s] \in {"loop", "get"} /\ audio_queue # <<>>)
                  => ENABLED AccStep(s)
        /\ \A s \in Sessions, d \in Devices :
              (/\ rd_pc[s][d] = "loop" /\ ds_running[s][d] /\ ds_stream[s][d]
               /\ Len(audio_queue) < MaxIngest /\ reads < MaxReads)
                  => ENABLED Read(s, d, MaxReads)

C2_Witness ==
    /\ is_recording
    /\ record_thread # 0
    /\ acc_pc[record_thread] = "loop"
    /\ audio_queue # <<>>
    /\ Len(transcription_queue) = HandoffCapacity
    /\ ENABLED AccStep(record_thread)

\* C3: the hand-off channel never holds more than HandoffCapacity spans.
C3_HandoffBounded == Len(transcription_queue) <= HandoffCapacity

C3_Witness ==
    /\ Len(transcription_queue) = HandoffCapacity
    /\ event.op = "acc" /\ event.kind = "flush_full"

\* C4: a span formed in the main loop has at least samples_threshold samples;
\* a shorter span comes only from the shutdown flush, after which the
\* accumulator thread has ended.
C4_FullSpansOnly ==
    /\ FullSpanFormed(event) => Len(event.span) >= samples_threshold
    /\ (event.op = "acc" /\ event.kind \in {"flush", "flush_full"})
           => acc_pc[event.by] = "done"

C4_Witness ==
    /\ FullSpanFormed(event)
    /\ event.kind = "enqueued"
    /\ Len(event.span) > samples_threshold
    /\ transcription_queue # <<>>

\* The last step formed a span: a full window or the shutdown flush.
SpanFormed(ev) == ev.op = "acc" /\ ev.kind # "append"

\* C5: every span an accumulator forms after its first begins with the overlap
\* tail (the last overlap_samples samples, or all of them when there are
\* fewer) of the span it formed before.
C5_OverlapContinuity ==
    [][(SpanFormed(event') /\ last_span[event'.by] # <<>>) =>
          FirstSamples(event'.span, Len(last_span[event'.by]))
              = last_span[event'.by]]_vars

\* C6: after a full-window flush the window holds exactly the last
\* overlap_samples samples of the flushed span, or the whole span when it is
\* not longer than that, and accumulated_samples is the length of the window.
C6_ReseedWithOverlapTail ==
    FullSpanFormed(event) =>
        /\ accumulator[event.by] = LastSamples(event.span, overlap_samples)
        /\ accumulated_samples[event.by] = Len(accumulator[event.by])

\* C7: no silent span is in the hand-off channel or in the hands of the callback.
C7_NoSilentSpanHandedOff ==
    /\ \A i \in DOMAIN transcription_queue : ~IsSilent(transcription_queue[i])
    /\ \A s \in Sessions : disp_pc[s] = "callback" => ~IsSilent(disp_span[s])

\* Everything start_recording() may write, and the threads it may spawn.
start_writes == <<is_recording, device_streams, active_device_names,
                  transcribe_callback, dropped_chunks, record_thread,
                  transcription_thread, session, ds_running, ds_stream, ds_thread, rd_pc,
                  acc_pc, disp_pc>>

\* C8: start_recording() called while is_recording returns false and changes
\* nothing.
C8_StartWhileRecordingIsNoop ==
    [][(event'.op = "start" /\ is_recording) =>
          /\ event'.result = FALSE
          /\ UNCHANGED start_writes
          /\ UNCHANGED <<buffer_progress, audio_queue, transcription_queue,
                         accumulator, accumulated_samples, disp_span>>]_vars

C8_Witness ==
    /\ event.op = "start"
    /\ is_recording
    /\ event.result = FALSE
    /\ event.cb # transcribe_callback
    /\ event.mode = 0
    /\ \E i \in DOMAIN event.devs : event.devs[i] \in event.ok
    /\ dropped_chunks = 0

\* The call opens no device: nothing enumerated, every open failing, or the
\* selected device failing.
OpensNothing(ev) ==
    IF ev.mode = 0
    THEN \A i \in DOMAIN ev.devs : ev.devs[i] \notin ev.ok
    ELSE ev.mode \notin ev.ok

\* C9: a start_recording() that opens no device returns false, leaves
\* is_recording false, spawns no thread and leaves dropped_chunks and
\* buffer_progress as they were (at their defaults before any session).
C9_NoDeviceNoSession ==
    [][(event'.op = "start" /\ ~is_recording /\ OpensNothing(event')) =>
          /\ event'.result = FALSE
          /\ is_recording' = FALSE
          /\ UNCHANGED <<record_thread, transcription_thread, session, acc_pc,
                         disp_pc, rd_pc, dropped_chunks, buffer_progress>>
          /\ session = 0 => dropped_chunks' = 0 /\ buffer_progress' = 0]_vars

C9_Witness ==
    /\ event.op = "start"
    /\ ~is_recording
    /\ event.result = FALSE
    /\ event.mode = 0
    /\ Len(event.devs) = NumDevices
    /\ OpensNothing(event)
    /\ session = 0

\* C10: in all-devices mode start_recording() succeeds exactly when some
\* enumerated device opens, and device_streams is then the enumerated devices
\* that open, in order: a device that fails is skipped, the rest still tried.
C10_FailedDeviceSkipped ==
    [][(event'.op = "start" /\ ~is_recording /\ event'.mode = 0) =>
          LET opens == SelectSeq(event'.devs, LAMBDA d : d \in event'.ok)
          IN  /\ event'.result = (opens # <<>>)
              /\ event'.result => device_streams' = opens]_vars

C10_Witness ==
    /\ event.op = "start"
    /\ event.result
    /\ event.mode = 0
    /\ Len(event.devs) = 2
    /\ event.devs[1] \notin event.ok
    /\ device_streams = <<event.devs[2]>>

\* Every variable of the program (all but the description of the last step).
program_vars == <<config_vars, session_vars, reader_vars, acc_vars, disp_vars,
                  ctl_vars, reads, dropped_chunks, buffer_progress, audio_queue,
                  transcription_queue, last_span>>

\* C11: stop_recording() called when no session is running changes nothing,
\* and when stop_recording() has returned no session is running, so that a
\* second call in succession is such a call and leaves the state of the first.
C11_StopIdempotent ==
    /\ [][event'.op = "stop_noop" => UNCHANGED program_vars]_vars
    /\ [](event.op = "stop_return" => (~is_recording /\ ENABLED StopNoop))

C11_Witness ==
    /\ event.op = "stop_noop"
    /\ session > 0
    /\ ~is_recording
    /\ device_streams = <<>>

\* The order of the steps of stop_recording().
StopOrder ==
    {<<"idle", "stop_devices">>, <<"stop_devices", "join_reader">>,
     <<"join_reader", "stop_devices">>, <<"stop_devices", "join_record">>,
     <<"join_record", "join_transcription">>,
     <<"join_transcription", "drain_audio">>,
     <<"drain_audio", "drain_transcription">>,
     <<"drain_transcription", "finish">>, <<"finish", "idle">>}

\* C12: stop_recording() clears the running flag, stops every DeviceStream,
\* joins the accumulator thread, joins the dispatcher thread and then empties
\* the ingest and the hand-off channel, in this order; when it empties a
\* channel both joins are behind it.
C12_StopOrder ==
    [][/\ ctl_pc' # ctl_pc => <<ctl_pc, ctl_pc'>> \in StopOrder
       /\ (ctl_pc = "idle" /\ ctl_pc' # "idle") => (is_recording /\ ~is_recording')
       /\ (ctl_pc = "stop_devices" /\ ctl_pc' = "join_record")
             => /\ ~is_recording
                /\ \A d \in Devices : ~ds_running[session][d] /\ ~ds_stream[session][d]
       /\ (ctl_pc = "join_record" /\ ctl_pc' # ctl_pc)
             => (audio_queue' = audio_queue /\ transcription_queue' = transcription_queue)
       /\ (ctl_pc = "join_transcription" /\ ctl_pc' # ctl_pc)
             => (audio_queue' = audio_queue /\ transcription_queue' = transcription_queue)
       /\ event'.op = "stop_drain"
             => /\ ctl_pc \in {"drain_audio", "drain_transcription"}
                /\ ~is_recording
                /\ device_streams = <<>>
                /\ record_thread = 0
                /\ transcription_thread = 0]_vars

C12_Witness ==
    /\ ctl_pc = "finish"
    /\ event.op = "stop_drain"
    /\ disp_pc[session] = "callback"
    /\ acc_pc[session] = "done"

\* C13: in every state after stop_recording() has returned and before the next
\* start_recording(), the ingest channel and the hand-off channel are empty.
C13_ChannelsEmptyAfterStop ==
    (ctl_pc = "idle" /\ ~is_recording /\ session > 0)
        => (audio_queue = <<>> /\ transcription_queue = <<>>)

\* C14: an accumulator that leaves its loop (the running flag is cleared) with
\* a non-empty window makes exactly one final hand-off attempt, with the whole
\* window, which waits for room and either enqueues the window or gives up on
\* a channel that stayed full; with an empty window it ends without an attempt.
C14_SingleFinalFlush ==
    [][/\ \A s \in Sessions :
             (acc_pc[s] \in {"loop", "get"} /\ acc_pc'[s] \in {"flush", "done"})
                 => /\ ~is_recording
                    /\ acc_pc'[s] = "flush" <=> accumulator[s] # <<>>
                    /\ transcription_queue' = transcription_queue
       /\ \A s \in Sessions :
             (acc_pc[s] = "flush" /\ acc_pc'[s] # "flush")
                 => /\ acc_pc'[s] = "done"
                    /\ event'.op = "acc" /\ event'.by = s
                    /\ event'.kind \in {"flush", "flush_full"}
                    /\ event'.span = accumulator[s]
                    /\ event'.kind = "flush"
                          => transcription_queue' = Append(transcription_queue, accumulator[s])
                    /\ event'.kind = "flush_full"
                          => /\ Len(transcription_queue) = HandoffCapacity
                             /\ transcription_queue' = transcription_queue
       /\ \A s \in Sessions :
             (acc_pc[s] = "flush" /\ acc_pc'[s] = "flush")
                 => accumulator'[s] = accumulator[s]
       /\ (event'.op = "acc" /\ event'.kind \in {"flush", "flush_full"})
             => acc_pc[event'.by] = "flush"
       /\ \A s \in Sessions :
             acc_pc[s] = "done"
                 => (acc_pc'[s] = "done" /\ (event'.op = "acc" => event'.by # s))]_vars

C14_Witness ==
    /\ event.op = "acc" /\ event.kind = "flush"
    /\ ctl_pc \in {"join_record", "stop_devices", "join_reader"}
    /\ event.span # <<>>
    /\ Len(event.span) < samples_threshold
    /\ transcription_queue # <<>>
    /\ transcription_queue[Len(transcription_queue)] = event.span

\* C15: when stop_recording() comes to discard the contents of the hand-off
\* channel, the accumulator of the session having finished and its dispatcher
\* having ended by itself (no callback outlasted the join), the channel is
\* empty: every span that was in it, the final flushed span included, was
\* taken by the dispatcher and passed to the callback.
C15_BacklogDeliveredBeforeDrain ==
    (/\ ctl_pc = "drain_transcription"
     /\ acc_pc[session] = "done"
     /\ disp_pc[session] = "done")
        => transcription_queue = <<>>

\* C16: a dispatcher leaves its loop only from a state where the running flag
\* is cleared and the hand-off channel is empty; while the channel is
\* non-empty a dispatcher in its loop cannot leave, can take the next span,
\* and enters the callback with every span it takes, also after shutdown was
\* signalled.
C16_DispatcherDrainsBacklog ==
    /\ [][/\ \A s \in Sessions :
                (disp_pc[s] # "done" /\ disp_pc'[s] = "done")
                    => (disp_pc[s] = "loop" /\ ~is_recording /\ transcription_queue = <<>>)
          /\ event'.op = "disp_get"
                => /\ disp_pc'[event'.by] = "got"
                   /\ disp_span'[event'.by] = Head(transcription_queue)
                   /\ transcription_queue' = Tail(transcription_queue)
          /\ (event'.op = "disp_call" /\ transcribe_callback # NoCallback)
                => /\ disp_pc'[event'.by] = "callback"
                   /\ disp_span'[event'.by] = disp_span[event'.by]]_vars
    /\ [](\A s \in Sessions :
             (disp_pc[s] = "loop" /\ transcription_queue # <<>>)
                 => (ENABLED DispGet(s) /\ ~ENABLED DispExit(s)))

C16_Witness ==
    /\ ~is_recording
    /\ ctl_pc = "join_transcription"
    /\ event.op = "disp_call"
    /\ disp_pc[session] = "callback"
    /\ transcription_queue # <<>>

\* C17: at no time are two threads inside the transcription callback.
C17_CallbackSerialized ==
    \A s1, s2 \in Sessions :
        (disp_pc[s1] = "callback" /\ disp_pc[s2] = "callback") => s1 = s2

\* C18: when the callback raises, the dispatcher that called it is back in its
\* loop without the span, which is not put back; nothing else changes (the
\* running flag, the accumulators, the readers, the channels), and the
\* dispatcher can take the next span.
C18_CallbackFailureContained ==
    /\ [][event'.op = "disp_raise"
             => /\ disp_pc[event'.by] = "callback"
                /\ disp_pc' = [disp_pc EXCEPT ![event'.by] = "loop"]
                /\ disp_span' = [disp_span EXCEPT ![event'.by] = <<>>]
                /\ UNCHANGED <<config_vars, ui_vars, session_vars, reader_vars, acc_vars,
                               ctl_vars, reads, dropped_chunks, buffer_progress,
                               audio_queue, transcription_queue, last_span>>]_vars
    /\ []((event.op = "disp_raise" /\ transcription_queue # <<>>)
             => ENABLED DispGet(event.by))

C18_Witness ==
    /\ event.op = "disp_raise"
    /\ is_recording
    /\ disp_pc[event.by] = "loop"
    /\ transcription_queue # <<>>
    /\ acc_pc[event.by] \in {"loop", "get"}

\* C19: a stop_recording() that has begun returns, whatever the threads do: a
\* reader whose read never returns, an accumulator waiting in its flush and a
\* dispatcher whose callback never returns are given up after the timeout of
\* their join.
C19_StopReturns == (ctl_pc # "idle") ~> (ctl_pc = "idle")

C19_Witness ==
    /\ event.op = "stop_return"
    /\ disp_pc[session] = "callback"
    /\ \E d \in Devices : rd_pc[session][d] = "last"
    /\ acc_pc[session] = "flush"

\* C20: a start_recording() that succeeds leaves dropped_chunks at 0 and
\* active_device_names with one name per device this call opened (the
\* attempted devices that open), in the order of their opening, whatever the
\* two held before.
C20_StartResetsSession ==
    [][(event'.op = "start" /\ event'.result)
          => LET attempted == IF event'.mode = 0
                              THEN {event'.devs[i] : i \in DOMAIN event'.devs}
                              ELSE {event'.mode}
                 names == active_device_names'
             IN  /\ dropped_chunks' = 0
                 /\ {names[i] : i \in DOMAIN names}
                       = {<<"loopback", d>> : d \in attempted \cap event'.ok}
                 /\ Len(names) = Cardinality(attempted \cap event'.ok)
                 /\ Len(names) = Len(device_streams')
                 /\ \A i \in DOMAIN names : names[i] = <<"loopback", device_streams'[i]>>]_vars

C20_Witness ==
    /\ event.op = "start" /\ event.result
    /\ session = 2
    /\ active_device_names = <<DeviceName(NumDevices)>>
    /\ rd_pc[1][1] # "none"
    /\ disp_pc[1] = "callback"
    /\ dropped_chunks = 0
    /\ reads = SesReads

\* C21: a start_recording() that succeeds leaves buffer_progress at 0, whatever
\* the session before left in it.
C21_StartResetsProgress ==
    [][(event'.op = "start" /\ event'.result) => buffer_progress' = 0]_vars

\* A DeviceStream that holds no open stream, no thread and a cleared flag.
Closed(s, d) == ~ds_running[s][d] /\ ~ds_stream[s][d] /\ ds_thread[s][d] = "None"

\* C23: DeviceStream.stop() returns without raising in whatever state it finds
\* the stream, leaves the flag cleared, the thread forgotten and the stream
\* closed, and changes nothing of a stream that is already so.
C23_StopAnyState ==
    [][/\ event'.op = "ds_stop" =>
             /\ event'.result
             /\ ~ds_running'[event'.by][event'.mode]
             /\ ~ds_stream'[event'.by][event'.mode]
             /\ ds_thread'[event'.by][event'.mode] = "None"
       /\ \A d \in Devices :
             (/\ Closed(Standalone, d)
              /\ \/ ctl_pc = "idle" /\ ctl_pc' = "ds_join" /\ ctl_i' = d
                 \/ ctl_pc = "ds_join" /\ ctl_pc' = "idle" /\ ctl_i = d)
             => reader_vars' = reader_vars]_vars

\* C24: a DeviceStream.start() that returns False leaves no open stream, no
\* thread and a cleared flag.
C24_FailedStartClosed ==
    [][(event'.op = "ds_start" /\ ~event'.result) =>
          /\ ~ds_running'[event'.by][event'.mode]
          /\ ~ds_stream'[event'.by][event'.mode]
          /\ ds_thread'[event'.by][event'.mode] = "None"]_vars

\* C25: when the read of a reader inside its loop raises OSError, that reader
\* ends and nothing else changes: is_recording, the flags and streams of all
\* devices, the positions of the other readers, of the accumulators and of the
\* dispatchers, and both channels are as before.
C25_ReadErrorIsLocal ==
    [][\A s \in Sessions, d \in Devices :
          (rd_pc[s][d] = "loop" /\ rd_pc'[s][d] = "done") =>
              /\ \A s2 \in Sessions, e \in Devices :
                    (s2 # s \/ e # d) => rd_pc'[s2][e] = rd_pc[s2][e]
              /\ UNCHANGED <<is_recording, ds_running, ds_stream, ds_thread,
                             acc_vars, disp_vars, audio_queue, transcription_queue,
                             record_thread, transcription_thread>>]_vars

\* A reader ended by an error while its stream is open and its flag set, in a
\* running session whose other reader, accumulator and dispatcher go on.
C25_Witness ==
    \E s \in Sessions, d, e \in Devices :
        /\ d # e
        /\ rd_pc[s][d] = "done" /\ ds_running[s][d] /\ ds_stream[s][d]
        /\ rd_pc[s][e] = "loop"
        /\ is_recording /\ session = s
        /\ acc_pc[s] \in {"loop", "get"}
        /\ disp_pc[s] = "loop"

\* The samples of the chunks of a channel, in the order of the channel.
RECURSIVE Samples(_)
Samples(q) == IF q = <<>> THEN <<>> ELSE Head(q).samples \o Samples(Tail(q))

Increasing(x) == \A i \in 1..(Len(x) - 1) : x[i] < x[i + 1]

C27_OneSessionThreads ==
    /\ Cardinality({s \in Sessions : acc_pc[s] \in {"loop", "get", "flush"}}) <= 1
    /\ Cardinality({s \in Sessions : disp_pc[s] \in {"loop", "got", "callback"}}) <= 1
    /\ \A s \in Sessions, d \in Devices : rd_pc[s][d] \in {"loop", "last"} => s = session

\* The number of samples the step of an accumulator that took a chunk added to
\* its window.
Appended ==
    LET s == event'.by
    IN  (IF event'.kind = "append" THEN Len(accumulator'[s]) ELSE Len(event'.span))
            - Len(accumulator[s])

TookChunk == event'.op = "acc" /\ event'.kind \in {"append", "silent", "enqueued", "dropped"}

\* C28: a chunk of L samples that is decimated by the integer r adds to the
\* window a number of samples within 1 of L / r.
C28_DecimatedLength ==
    [][TookChunk =>
          LET chunk == Head(audio_queue)
              L == Len(chunk.samples)
              r == Round(chunk.rate, TargetRate)
          IN  DecimationPath(L, chunk.rate) => Abs(r * Appended - L) <= r]_vars

\* A chunk of more than DecimateMinLen frames became a span half as long.
C28_Witness ==
    /\ event.op = "acc" /\ event.kind = "enqueued"
    /\ reads > DecimateMinLen
    /\ audio_queue = <<>> /\ accumulator[event.by] = <<>>
    /\ 2 * Len(event.span) \in {reads, reads + 1}

QueryFailed(host) ==
    \/ ~host.api
    \/ \E i \in DOMAIN host.table : host.table[i] = "error"
    \/ host.default = 0

\* C30 as stated: get_loopback_devices() does not raise, and returns the empty
\* sequence whenever a query failed.
C30_EmptyOnFailure ==
    event.op = "enumerate" =>
        /\ event.result
        /\ QueryFailed(event.host) => event.devs = <<>>

\* C30, amended: get_loopback_devices() does not raise; when the host API
\* query fails it returns the empty sequence; when a later query fails it
\* returns what it collected before: every loopback device listed before the
\* first failing device query, and from the table only such devices or the
\* default loopback device.
C30_PartialOnFailure ==
    event.op = "enumerate" =>
        LET host == event.host
            returned == {event.devs[i] : i \in DOMAIN event.devs}
            before == {i \in DOMAIN host.table :
                          \A j \in 1..i : host.table[j] # "error"}
            loopbacks == {i \in before : host.table[i] \in {"flagged", "named"}}
        IN  /\ event.result
            /\ ~host.api => event.devs = <<>>
            /\ host.api => loopbacks \subseteq returned
            /\ returned \subseteq loopbacks \cup {host.default, SpeakersIndex}

\* A device query fails after a loopback device was collected, and the device
\* is returned.
C30_Witness ==
    /\ event.op = "enumerate"
    /\ event.host.api
    /\ Len(event.host.table) = 2
    /\ event.host.table[1] = "flagged" /\ event.host.table[2] = "error"
    /\ event.devs = <<1>>

NoRepeat(l) == \A i, j \in DOMAIN l : i # j => l[i] # l[j]

\* The platform answered the default loopback query: the queries before it
\* succeeded and the query returned a device.
DefaultReported(host) ==
    /\ host.api
    /\ \A i \in DOMAIN host.table : host.table[i] # "error"
    /\ host.default # 0

\* C31: what get_loopback_devices() returns holds no device index twice and
\* holds the default loopback device whenever the platform reported one; the
\* DeviceStreams of a session opened from it are of different devices.
C31_NoDeviceTwice ==
    /\ event.op \in {"enumerate", "start"} =>
           /\ NoRepeat(event.devs)
           /\ (event.op = "enumerate" /\ DefaultReported(event.host)) =>
                  \E i \in DOMAIN event.devs : event.devs[i] = event.host.default
    /\ NoRepeat(device_streams)

\* A session opened on two devices, one of them both listed as a loopback
\* device and reported as the default loopback device.
C31_Witness ==
    /\ event.op = "start" /\ event.result
    /\ event.devs = <<1, 2>>
    /\ device_streams = <<1, 2>>

\* The readers, the accumulator and the dispatcher of session s have ended.
Terminated(s) ==
    /\ acc_pc[s] = "done"
    /\ disp_pc[s] = "done"
    /\ \A d \in Devices : rd_pc[s][d] \in {"none", "done"}

\* C32: once stop_recording() has cleared is_recording, the threads of the
\* session end by themselves, unless start_recording() begins another session.
C32_ThreadsTerminate ==
    \A s \in Sessions :
        (session = s /\ ~is_recording) ~> (session # s \/ Terminated(s))

\* stop_recording() has returned and all the threads of a session that
\* dropped a span have ended.
C32_Witness ==
    /\ session >= 1 /\ ~is_recording /\ ctl_pc = "idle"
    /\ Terminated(session)
    /\ dropped_chunks > 0

\* C33: the reader of a DeviceStream whose stop() has returned (flag cleared,
\* thread forgotten, stream closed) enqueues nothing more.
C33_NoChunkAfterStop ==
    [][\A s \in Sessions, d \in Devices :
          (Closed(s, d) /\ rd_pc'[s][d] # rd_pc[s][d]) =>
              Len(audio_queue') <= Len(audio_queue)]_vars

\* C34: a span leaves the hand-off channel with the get that takes it, so it is
\* passed to the callback at most once, and the spans are passed to the
\* callback in the order of the channel: the dispatcher that enters the
\* callback holds the oldest span taken and not yet passed on.
C34_OnceInOrder ==
    [][/\ event'.op = "disp_get"
          => /\ transcription_queue' = Tail(transcription_queue)
             /\ disp_span'[event'.by] = Head(transcription_queue)
       /\ (event'.op = "disp_call" /\ event'.cb # NoCallback)
          => /\ disp_pc'[event'.by] = "callback"
             /\ Head(taken) = event'.by]_vars

C36_SessionFields ==
    ctl_pc = "idle" =>
        /\ is_recording =>
              (device_streams # <<>> /\ active_device_names = NamesOf(device_streams))
        /\ (~is_recording /\ event.op \in {"stop_return", "stop_noop"}) =>
              /\ device_streams = <<>>
              /\ active_device_names = <<>>
              /\ transcribe_callback = NoCallback

\* C37: the spans that were waiting in the hand-off channel when the window
\* was told to stop are transcribed and added to the transcript: on_audio_chunk
\* leaves none of them out, and stop_recording() empties neither them nor the
\* accumulator's last span out of the channel.
C37_PendingSpansTranscribed ==
    [][/\ \A s \in Sessions :
             (/\ disp_pc[s] = "callback" /\ disp_pc'[s] # "callback"
              /\ \E i \in DOMAIN pending : pending[i] = disp_span[s])
                => /\ Len(transcript') = Len(transcript) + 1
                   /\ transcript'[Len(transcript')].span = disp_span[s]
       /\ Len(transcription_queue') < Len(transcription_queue)
             => event'.op = "disp_get"]_vars

\* The time of the first sample of a span, in samples since the session began
\* to capture.  One device at the target rate delivers the frames 1, 2, ... in
\* order and a span is a run of consecutive frames whose last one, the k-th,
\* has the value k.
SpanStart(span) == span[Len(span)] - Len(span)

\* C38: the offset on_audio_chunk reads for a span is the time of the span's
\* first sample, and live_segment_offset never decreases while the session
\* lasts.
C38_OffsetIsSpanStart ==
    [][/\ event'.op = "on_chunk"
             => chunk_offset'[event'.by][1] = SpanStart(disp_span[event'.by])
       /\ event'.op \notin {"start", "ui_stop_end"}
             => live_segment_offset' >= live_segment_offset]_vars

====
